---- MODULE Spec2Model ----
(***************************************************************************)
(* The three build scripts of scripts/: flatten_contracts.py,              *)
(* process_contracts.py and process_abis.py, as one state machine over a   *)
(* file system.                                                            *)
(*                                                                         *)
(* A Python str is a sequence of one-character strings, so that slicing    *)
(* (s[10:], s[-4:]), rfind, replace, re.sub and sorted() are computed as   *)
(* the scripts compute them.  The file system maps a path (without a       *)
(* trailing slash) to an entry [kind, data]; the working directory is the  *)
(* empty path.                                                             *)
(***************************************************************************)
EXTENDS Integers, Sequences, FiniteSets, TLC

VARIABLES
    pipeline,    \* which script runs: "flatten", "process", "abi" ("text": the transforms alone)
    args_files,  \* process_contracts.py: args.files, [given, value]
    fs,          \* the file system
    pc,          \* position in the script
    filenames,   \* the script's filenames (filenames2 in process_abis.py once filtered)
    dirs,        \* the script's dirs
    i,           \* index of the running for loop
    tool,        \* what `npx hardhat flatten <path>` answers, per path asked so far
    run,         \* 1, or 2 once the script has been started again
    out1,        \* the output tree the first run left
    prior,       \* the file system when the run started
    invoked,     \* the paths handed to the flatten tool, in order
    log,         \* the lines printed
    mkdirs,      \* the mkdir calls made, in order, with their success
    written,     \* the paths opened for writing, in order
    created,     \* the paths this run brought into existence
    cleaned,     \* whether rm -rf ran on the output root
    crash,       \* why the interpreter stopped: "" | "open" | "artifact"
    text,        \* SpecText: the flattened text captured from the tool
    output       \* SpecText: the text the transform yields

vars == <<pipeline, args_files, fs, pc, filenames, dirs, i, tool, run, out1, prior,
          invoked, log, mkdirs, written, created, cleaned, crash, text, output>>

(***************************************************************************)
(* Bounds of the model.                                                    *)
(***************************************************************************)
MaxContracts == 3   \* entries picked into an input tree
MaxListed == 2      \* entries of a --files list
MaxFrags == 3       \* fragments of a flattened text (SpecText)

(***************************************************************************)
(* Python's str and list operations.                                       *)
(***************************************************************************)
Min(a, b) == IF a < b THEN a ELSE b

Max(a, b) == IF a > b THEN a ELSE b

Range(s) == {s[k] : k \in 1..Len(s)}

\* ord(c), which sorted() compares strings by
Code == 
    ("\n" :> 10) @@ (" " :> 32) @@ ("!" :> 33) @@ ("\"" :> 34) @@ ("#" :> 35) @@ ("$" :> 36)
    @@ ("%" :> 37) @@ ("&" :> 38) @@ ("'" :> 39) @@ ("(" :> 40) @@ (")" :> 41) @@ ("*" :> 42)
    @@ ("+" :> 43) @@ ("," :> 44) @@ ("-" :> 45) @@ ("." :> 46) @@ ("/" :> 47) @@ ("0" :> 48)
    @@ ("1" :> 49) @@ ("2" :> 50) @@ ("3" :> 51) @@ ("4" :> 52) @@ ("5" :> 53) @@ ("6" :> 54)
    @@ ("7" :> 55) @@ ("8" :> 56) @@ ("9" :> 57) @@ (":" :> 58) @@ (";" :> 59) @@ ("<" :> 60)
    @@ ("=" :> 61) @@ (">" :> 62) @@ ("?" :> 63) @@ ("@" :> 64) @@ ("A" :> 65) @@ ("B" :> 66)
    @@ ("C" :> 67) @@ ("D" :> 68) @@ ("E" :> 69) @@ ("F" :> 70) @@ ("G" :> 71) @@ ("H" :> 72)
    @@ ("I" :> 73) @@ ("J" :> 74) @@ ("K" :> 75) @@ ("L" :> 76) @@ ("M" :> 77) @@ ("N" :> 78)
    @@ ("O" :> 79) @@ ("P" :> 80) @@ ("Q" :> 81) @@ ("R" :> 82) @@ ("S" :> 83) @@ ("T" :> 84)
    @@ ("U" :> 85) @@ ("V" :> 86) @@ ("W" :> 87) @@ ("X" :> 88) @@ ("Y" :> 89) @@ ("Z" :> 90)
    @@ ("[" :> 91) @@ ("\\" :> 92) @@ ("]" :> 93) @@ ("^" :> 94) @@ ("_" :> 95) @@ ("a" :> 97)
    @@ ("b" :> 98) @@ ("c" :> 99) @@ ("d" :> 100) @@ ("e" :> 101) @@ ("f" :> 102) @@ ("g" :> 103)
    @@ ("h" :> 104) @@ ("i" :> 105) @@ ("j" :> 106) @@ ("k" :> 107) @@ ("l" :> 108) @@ ("m" :> 109)
    @@ ("n" :> 110) @@ ("o" :> 111) @@ ("p" :> 112) @@ ("q" :> 113) @@ ("r" :> 114) @@ ("s" :> 115)
    @@ ("t" :> 116) @@ ("u" :> 117) @@ ("v" :> 118) @@ ("w" :> 119) @@ ("x" :> 120) @@ ("y" :> 121)
    @@ ("z" :> 122) @@ ("{" :> 123) @@ ("|" :> 124) @@ ("}" :> 125) @@ ("~" :> 126)

\* c.lower() on A-Z, which re.IGNORECASE compares by
LowerOf == 
    ("A" :> "a") @@ ("B" :> "b") @@ ("C" :> "c") @@ ("D" :> "d") @@ ("E" :> "e") @@ ("F" :> "f")
    @@ ("G" :> "g") @@ ("H" :> "h") @@ ("I" :> "i") @@ ("J" :> "j") @@ ("K" :> "k") @@ ("L" :> "l")
    @@ ("M" :> "m") @@ ("N" :> "n") @@ ("O" :> "o") @@ ("P" :> "p") @@ ("Q" :> "q") @@ ("R" :> "r")
    @@ ("S" :> "s") @@ ("T" :> "t") @@ ("U" :> "u") @@ ("V" :> "v") @@ ("W" :> "w") @@ ("X" :> "x")
    @@ ("Y" :> "y") @@ ("Z" :> "z")

Fold(c) == IF c \in DOMAIN LowerOf THEN LowerOf[c] ELSE c

\* s[k:], k >= 0
From(s, k) == SubSeq(s, k + 1, Len(s))

\* s[:k]; a negative k counts from the end
Upto(s, k) ==
    IF k >= 0 THEN SubSeq(s, 1, Min(k, Len(s)))
    ELSE SubSeq(s, 1, Max(Len(s) + k, 0))

\* s[-n:]
Last(s, n) == SubSeq(s, Max(Len(s) - n, 0) + 1, Len(s))

\* s.rfind(c): the 0-based index of the last c, -1 when there is none
RFind(s, c) ==
    LET I == {k \in 1..Len(s) : s[k] = c}
    IN  IF I = {} THEN -1 ELSE (CHOOSE k \in I : \A j \in I : j <= k) - 1

StartsWith(s, p) == Len(s) >= Len(p) /\ SubSeq(s, 1, Len(p)) = p

\* s.replace(old, new), and re.sub of a pattern that is a literal: every
\* non-overlapping occurrence, leftmost first
RECURSIVE Replace(_, _, _)
Replace(s, old, new) ==
    LET I == {k \in 1..(Len(s) - Len(old) + 1) : StartsWith(From(s, k - 1), old)}
    IN  IF I = {} THEN s
        ELSE LET k == CHOOSE m \in I : \A j \in I : m <= j
             IN  SubSeq(s, 1, k - 1) \o new \o Replace(From(s, k + Len(old) - 1), old, new)

\* s.split(sep), sep one character
RECURSIVE Split(_, _)
Split(s, sep) ==
    LET I == {k \in 1..Len(s) : s[k] = sep}
    IN  IF I = {} THEN <<s>>
        ELSE LET k == CHOOSE m \in I : \A j \in I : m <= j
             IN  <<SubSeq(s, 1, k - 1)>> \o Split(From(s, k), sep)

\* a < b as Python compares two str
RECURSIVE StrLess(_, _)
StrLess(a, b) ==
    IF b = <<>> THEN FALSE
    ELSE IF a = <<>> THEN TRUE
    ELSE IF a[1] = b[1] THEN StrLess(Tail(a), Tail(b))
    ELSE Code[a[1]] < Code[b[1]]

\* a variant for comparison: sorted(S, reverse=True)
RECURSIVE sortedDescending(_)
sortedDescending(S) ==
    IF S = {} THEN <<>>
    ELSE LET m == CHOOSE x \in S : \A y \in S \ {x} : StrLess(y, x)
         IN  <<m>> \o sortedDescending(S \ {m})

\* sorted(S) of strings without repetition
RECURSIVE sorted(_)
sorted(S) ==
    IF S = {} THEN <<>>
    ELSE LET m == CHOOSE x \in S : \A y \in S \ {x} : StrLess(x, y)
         IN  <<m>> \o sorted(S \ {m})

(***************************************************************************)
(* The constants of the scripts.                                           *)
(***************************************************************************)
license == <<"/", "/", " ", "S", "P", "D", "X", "-", "L", "i", "c", "e", "n", "s", "e", "-", "I", "d", "e", "n", "t", "i", "f", "i", "e", "r", ":", " ", "G", "P", "L", "-", "3", ".", "0", "-", "o", "r", "-", "l", "a", "t", "e", "r">>

\* re.compile('//\ SPDX.*', re.IGNORECASE): the literal head, folded; .* runs to the end of the line
license_pattern == <<"/", "/", " ", "s", "p", "d", "x">>

pragma == <<"p", "r", "a", "g", "m", "a", " ", "s", "o", "l", "i", "d", "i", "t", "y", " ", "0", ".", "8", ".", "0">>

\* re.compile('pragma\\ solidity\\ \\^0\\.8\\.0'): every character escaped, a literal
pragma_pattern == <<"p", "r", "a", "g", "m", "a", " ", "s", "o", "l", "i", "d", "i", "t", "y", " ", "^", "0", ".", "8", ".", "0">>

CONTRACTS == <<"c", "o", "n", "t", "r", "a", "c", "t", "s", "/">>

CONTRACTS_FLAT == <<"c", "o", "n", "t", "r", "a", "c", "t", "s", "_", "f", "l", "a", "t", "/">>

CONTRACTS_PROCESSED == <<"c", "o", "n", "t", "r", "a", "c", "t", "s", "_", "p", "r", "o", "c", "e", "s", "s", "e", "d", "/">>

ARTIFACTS == <<"a", "r", "t", "i", "f", "a", "c", "t", "s", "/", "c", "o", "n", "t", "r", "a", "c", "t", "s", "/">>

ABI == <<"a", "b", "i", "/">>

NL == <<"\n">>

(***************************************************************************)
(* The file system: rm -rf, mkdir, open(), glob.                           *)
(***************************************************************************)
Dir == [kind |-> "dir", data |-> <<>>]

File(data) == [kind |-> "file", data |-> data]

\* a path as the OS resolves it: one trailing slash dropped
NoSlash(p) == IF p /= <<>> /\ p[Len(p)] = "/" THEN Upto(p, Len(p) - 1) ELSE p

Parent(p) == IF RFind(p, "/") < 0 THEN <<>> ELSE Upto(p, RFind(p, "/"))

IsDir(f, p) == p = <<>> \/ (p \in DOMAIN f /\ f[p].kind = "dir")

\* p is root or lies below it
Under(p, root) == p = NoSlash(root) \/ StartsWith(p, NoSlash(root) \o <<"/">>)

\* variants for comparison: no cleaning at all, and the files removed but
\* the directories kept
RmRfNothing(f, root) == f

RmRfFilesOnly(f, root) ==
    [p \in {q \in DOMAIN f : ~(Under(q, root) /\ f[q].kind = "file")} |-> f[p]]

\* subprocess.run(['rm', '-rf', root])
RmRf(f, root) == [p \in {q \in DOMAIN f : ~Under(q, root)} |-> f[p]]

\* whether mkdir d succeeds: the parent is a directory and d does not exist
MkdirOk(f, d) == IsDir(f, Parent(NoSlash(d))) /\ NoSlash(d) \notin DOMAIN f

\* subprocess.run(['mkdir', d]): a failure is not looked at
Mkdir(f, d) == IF MkdirOk(f, d) THEN (NoSlash(d) :> Dir) @@ f ELSE f

\* whether open(p, 'w') succeeds
CanOpenW(f, p) ==
    /\ p /= <<>>
    /\ p[Len(p)] /= "/"
    /\ IsDir(f, Parent(p))
    /\ ~IsDir(f, p)

\* the file system once p holds data
WriteFile(f, p, data) == (p :> File(data)) @@ f

\* a name glob's * matches: not hidden
Visible(name) == name /= <<>> /\ name[1] /= "."

\* whether some component of the relative path is hidden
RECURSIVE AllVisible(_)
AllVisible(rel) ==
    LET k == RFind(rel, "/")
    IN  IF k < 0 THEN Visible(rel)
        ELSE Visible(From(rel, k + 1)) /\ AllVisible(Upto(rel, k))

\* glob(root + '**/*', recursive=True): every entry below root
GlobRec(f, root) ==
    {p \in DOMAIN f : StartsWith(p, root) /\ AllVisible(From(p, Len(root)))}

\* glob(dir + '*'): the entries of dir
GlobDir(f, dir) ==
    {p \in DOMAIN f : /\ StartsWith(p, dir)
                     /\ RFind(From(p, Len(dir)), "/") < 0
                     /\ Visible(From(p, Len(dir)))}

\* the entries of the file system at or below root
OutTree(f, root) == [p \in {q \in DOMAIN f : Under(q, root)} |-> f[p]]

(***************************************************************************)
(* The text transforms.                                                    *)
(***************************************************************************)
\* a variant for comparison: the pattern without re.IGNORECASE
LicenseAtCaseSensitive(s) ==
    /\ Len(s) >= 7
    /\ SubSeq(s, 1, 7) = <<"/", "/", " ", "S", "P", "D", "X">>

\* whether license_pattern matches at the head of s
LicenseAt(s) ==
    /\ Len(s) >= Len(license_pattern)
    /\ \A k \in 1..Len(license_pattern) : Fold(s[k]) = license_pattern[k]

\* s from its first newline on (.* stops before it)
RestOfLine(s) ==
    LET I == {k \in 1..Len(s) : s[k] = "\n"}
    IN  IF I = {} THEN <<>>
        ELSE From(s, (CHOOSE k \in I : \A j \in I : k <= j) - 1)

\* re.sub(license_pattern, '', s)
RECURSIVE SubLicense(_)
SubLicense(s) ==
    LET I == {k \in 1..Len(s) : LicenseAt(From(s, k - 1))}
    IN  IF I = {} THEN s
        ELSE LET k == CHOOSE m \in I : \A j \in I : m <= j
             IN  SubSeq(s, 1, k - 1) \o SubLicense(RestOfLine(From(s, k - 1)))

\* a variant for comparison: re.sub(pragma_pattern, pragma, s, count=1)
SubPragmaOnce(s) ==
    LET I == {k \in 1..(Len(s) - Len(pragma_pattern) + 1) :
                 SubSeq(s, k, k + Len(pragma_pattern) - 1) = pragma_pattern}
    IN  IF I = {} THEN s
        ELSE LET k == CHOOSE m \in I : \A n \in I : m <= n
             IN  SubSeq(s, 1, k - 1) \o pragma \o From(s, k + Len(pragma_pattern) - 1)

\* re.sub(pragma_pattern, pragma, s)
SubPragma(s) == Replace(s, pragma_pattern, pragma)

\* '{}\n\n{}'.format(license, re.sub(pattern, '', stdout))
FlattenTransform(stdout) == license \o NL \o NL \o SubLicense(stdout)

\* the same, then the pragma corrected
ProcessTransform(stdout) == SubPragma(license \o NL \o NL \o SubLicense(stdout))

(***************************************************************************)
(* Inputs: the trees under contracts/, what the output root held before,   *)
(* and what the flatten tool answers.                                      *)
(***************************************************************************)
\* relative paths an input tree is picked from
Units == {<<"A", ".", "s", "o", "l">>, <<"B", ".", "s", "o", "l">>, <<"m", "/", "C", ".", "s", "o", "l">>, <<"m", "-", "x", "/", "E", ".", "s", "o", "l">>, <<"m", "/", "n", "/", "D", ".", "s", "o", "l">>, <<"n", "o", "t", "e", "s", ".", "t", "x", "t">>}

\* the directories above a path, and the path
RECURSIVE Ancestors(_)
Ancestors(p) == IF Parent(p) = <<>> THEN {} ELSE {Parent(p)} \cup Ancestors(Parent(p))

\* the tree under contracts/ holding the picked files
ContractTree(K) ==
    LET files == {CONTRACTS \o k : k \in K}
        ds == UNION {Ancestors(p) : p \in files}
    IN  [p \in files \cup ds |-> IF p \in files THEN File(<<"s", "r", "c">>) ELSE Dir]

Picks == {K \in SUBSET Units : Cardinality(K) <= MaxContracts}

\* what an output root may hold before a run
Priors(root) ==
    { <<>>,
      (NoSlash(root) :> Dir) @@ (root \o <<"o", "l", "d", ".", "s", "o", "l">> :> File(<<"o", "l", "d">>))
          @@ (root \o <<"s", "t", "a", "l", "e">> :> Dir),
      (NoSlash(root) :> Dir) @@ (root \o <<"A", ".", "s", "o", "l">> :> File(<<"o", "l", "d">>))
          @@ (root \o <<"m">> :> Dir) @@ (root \o <<"m", "/", "C", ".", "s", "o", "l">> :> File(<<"o", "l", "d">>)) }

\* what the tool may answer: an exit status and what it printed
Outcomes ==
    { [rc |-> 1, out |-> <<"E", "r", "r">>],
      [rc |-> 0, out |-> <<"/", "/", " ", "S", "P", "D", "X", "-", "x", "\n", "p", "r", "a", "g", "m", "a", " ", "s", "o", "l", "i", "d", "i", "t", "y", " ", "^", "0", ".", "8", ".", "0", ";">>],
      [rc |-> 0, out |-> <<"X", "\n", "/", "/", " ", "s", "p", "d", "x", " ", "y">>] }

\* subprocess.run(['npx', 'hardhat', 'flatten', filename]): the same answer
\* every time the same path is asked
ToolRun(filename) == IF filename \in DOMAIN tool THEN {tool[filename]} ELSE Outcomes

NoArgs == [given |-> FALSE, value |-> <<>>]

\* variants for comparison: the filter ignored, and the exit status read the
\* wrong way round
IsNoneAlways(a) == TRUE

FailedInverted(res) == res.rc = 0

\* args.files is None
IsNone(a) == ~a.given

\* res.returncode != 0
Failed(res) == res.rc /= 0

\* filename[-4:] == '.sol'
IsSol(f) == Last(f, 4) = <<".", "s", "o", "l">>

Line(kind, arg) == [kind |-> kind, arg |-> arg]

(***************************************************************************)
(* flatten_contracts.py                                                    *)
(***************************************************************************)
InitFlatten ==
    /\ pipeline = "flatten"
    /\ args_files = NoArgs
    /\ \E K \in Picks, P \in Priors(CONTRACTS_FLAT) : fs = ContractTree(K) @@ P

\* lines 10-14: clean, get files, get dirs
FlattenStart ==
    /\ pipeline = "flatten" /\ pc = "start"
    /\ LET names == sorted(GlobRec(fs, CONTRACTS))
           ds == sorted({CONTRACTS_FLAT \o From(Upto(f, RFind(f, "/")), 10) : f \in Range(names)})
       IN  /\ fs' = RmRf(fs, CONTRACTS_FLAT)
           /\ cleaned' = TRUE
           /\ filenames' = names
           /\ dirs' = ds
           /\ i' = 1
           /\ pc' = "mkdirs"
    /\ UNCHANGED <<pipeline, args_files, tool, run, out1, prior, invoked, log, mkdirs,
                   written, created, crash, text, output>>

\* lines 16-19: one mkdir of the loop; past the last, the .sol files are kept
FlattenMakeDir ==
    /\ pipeline = "flatten" /\ pc = "mkdirs"
    /\ IF i <= Len(dirs)
       THEN /\ fs' = Mkdir(fs, dirs[i])
            /\ mkdirs' = Append(mkdirs, [dir |-> dirs[i], ok |-> MkdirOk(fs, dirs[i])])
            /\ created' = IF MkdirOk(fs, dirs[i]) THEN created \cup {NoSlash(dirs[i])} ELSE created
            /\ i' = i + 1
            /\ UNCHANGED <<pc, filenames>>
       ELSE /\ filenames' = SelectSeq(filenames, IsSol)
            /\ i' = 1
            /\ pc' = "files"
            /\ UNCHANGED <<fs, mkdirs, created>>
    /\ UNCHANGED <<pipeline, args_files, dirs, tool, run, out1, prior, invoked, log,
                   written, cleaned, crash, text, output>>

\* lines 20-36: one file of the loop
FlattenFile ==
    /\ pipeline = "flatten" /\ pc = "files" /\ i <= Len(filenames)
    /\ LET filename == filenames[i]
           new_filename == CONTRACTS_FLAT \o From(filename, 10)
       IN  \E res \in ToolRun(filename) :
             /\ tool' = (filename :> res) @@ tool
             /\ invoked' = Append(invoked, filename)
             /\ IF Failed(res)
                THEN /\ log' = log \o <<Line("cmd", filename), Line("ERROR", <<>>)>>
                     /\ i' = i + 1
                     /\ UNCHANGED <<fs, written, created, pc, crash>>
                ELSE /\ log' = Append(log, Line("cmd", filename))
                     /\ IF CanOpenW(fs, new_filename)
                        THEN /\ fs' = WriteFile(fs, new_filename, FlattenTransform(res.out))
                             /\ written' = Append(written, new_filename)
                             /\ created' = IF new_filename \in DOMAIN fs THEN created
                                           ELSE created \cup {new_filename}
                             /\ i' = i + 1
                             /\ UNCHANGED <<pc, crash>>
                        ELSE /\ pc' = "crashed"
                             /\ crash' = "open"
                             /\ UNCHANGED <<fs, written, created, i>>
    /\ UNCHANGED <<pipeline, args_files, filenames, dirs, run, out1, prior, mkdirs,
                   cleaned, text, output>>

\* the loop is over: the script ends
Finish ==
    /\ pipeline \in {"flatten", "process"} /\ pc = "files" /\ i > Len(filenames)
    /\ pc' = "done"
    /\ UNCHANGED <<pipeline, args_files, fs, filenames, dirs, i, tool, run, out1, prior,
                   invoked, log, mkdirs, written, created, cleaned, crash, text, output>>

\* what may happen to contracts_flat/ between two runs
Disturbed(f) ==
    { f,
      WriteFile(Mkdir(f, CONTRACTS_FLAT), CONTRACTS_FLAT \o <<"j", "u", "n", "k", ".", "s", "o", "l">>, <<"j", "u", "n", "k">>),
      [p \in DOMAIN f |-> IF Under(p, CONTRACTS_FLAT) /\ f[p].kind = "file"
                          THEN File(<<"e", "d", "i", "t", "e", "d">>) ELSE f[p]] }

\* flatten_contracts.py is started a second time on the unchanged contracts/
FlattenAgain ==
    /\ pipeline = "flatten" /\ pc = "done" /\ run = 1
    /\ run' = 2
    /\ out1' = OutTree(fs, CONTRACTS_FLAT)
    /\ \E g \in Disturbed(fs) : fs' = g /\ prior' = g
    /\ pc' = "start"
    /\ filenames' = <<>> /\ dirs' = <<>> /\ i' = 1
    /\ invoked' = <<>> /\ log' = <<>> /\ mkdirs' = <<>> /\ written' = <<>>
    /\ created' = {} /\ cleaned' = FALSE /\ crash' = ""
    /\ UNCHANGED <<pipeline, args_files, tool, text, output>>

(***************************************************************************)
(* process_contracts.py                                                    *)
(***************************************************************************)
\* relative paths a --files list is made of
Listable == {<<"A", ".", "s", "o", "l">>, <<"B", ".", "s", "o", "l">>, <<"m", "/", "C", ".", "s", "o", "l">>}

Lists == UNION {[1..n -> Listable] : n \in 1..MaxListed}

\* the comma separated list as given on the command line
RECURSIVE Joined(_)
Joined(list) ==
    IF Len(list) = 1 THEN list[1]
    ELSE list[1] \o <<",">> \o Joined(Tail(list))

InitProcess ==
    /\ pipeline = "process"
    /\ args_files \in {NoArgs} \cup {[given |-> TRUE, value |-> Joined(l)] : l \in Lists}
    /\ \E K \in Picks, P \in Priors(CONTRACTS_PROCESSED) : fs = ContractTree(K) @@ P

\* lines 22-28 and 33: get files; without --files clean and get dirs, with
\* --files take the listed files
ProcessStart ==
    /\ pipeline = "process" /\ pc = "start"
    /\ LET names == sorted(GlobRec(fs, CONTRACTS))
           ds == sorted({CONTRACTS_PROCESSED \o From(Upto(f, RFind(f, "/")), 10) : f \in Range(names)})
           listed == Split(args_files.value, ",")
       IN  IF IsNone(args_files)
           THEN /\ fs' = RmRf(fs, CONTRACTS_PROCESSED)
                /\ cleaned' = TRUE
                /\ filenames' = names
                /\ dirs' = ds
                /\ pc' = "mkdirs"
           ELSE /\ filenames' = [k \in 1..Len(listed) |-> CONTRACTS \o listed[k]]
                /\ pc' = "files"
                /\ UNCHANGED <<fs, cleaned, dirs>>
    /\ i' = 1
    /\ UNCHANGED <<pipeline, args_files, tool, run, out1, prior, invoked, log, mkdirs,
                   written, created, crash, text, output>>

\* lines 30-33: one mkdir of the loop; past the last, the .sol files are kept
ProcessMakeDir ==
    /\ pipeline = "process" /\ pc = "mkdirs"
    /\ IF i <= Len(dirs)
       THEN /\ fs' = Mkdir(fs, dirs[i])
            /\ mkdirs' = Append(mkdirs, [dir |-> dirs[i], ok |-> MkdirOk(fs, dirs[i])])
            /\ created' = IF MkdirOk(fs, dirs[i]) THEN created \cup {NoSlash(dirs[i])} ELSE created
            /\ i' = i + 1
            /\ UNCHANGED <<pc, filenames>>
       ELSE /\ filenames' = SelectSeq(filenames, IsSol)
            /\ i' = 1
            /\ pc' = "files"
            /\ UNCHANGED <<fs, mkdirs, created>>
    /\ UNCHANGED <<pipeline, args_files, dirs, tool, run, out1, prior, invoked, log,
                   written, cleaned, crash, text, output>>

\* lines 34-59: one file of the loop.  The output file is opened, and so
\* emptied, before the tool runs with it as its stdout
ProcessFile ==
    /\ pipeline = "process" /\ pc = "files" /\ i <= Len(filenames)
    /\ LET filename == filenames[i]
           new_filename == CONTRACTS_PROCESSED \o From(filename, 10)
       IN  IF ~CanOpenW(fs, new_filename)
           THEN /\ log' = Append(log, Line("processing", filename))
                /\ pc' = "crashed"
                /\ crash' = "open"
                /\ UNCHANGED <<fs, tool, invoked, written, created, i>>
           ELSE \E res \in ToolRun(filename) :
                  /\ tool' = (filename :> res) @@ tool
                  /\ invoked' = Append(invoked, filename)
                  /\ written' = Append(written, new_filename)
                  /\ created' = IF new_filename \in DOMAIN fs THEN created
                                ELSE created \cup {new_filename}
                  /\ IF Failed(res)
                     THEN /\ log' = log \o <<Line("processing", filename), Line("ERROR", <<>>)>>
                          /\ fs' = WriteFile(fs, new_filename, res.out)
                     ELSE /\ log' = Append(log, Line("processing", filename))
                          /\ fs' = WriteFile(fs, new_filename, ProcessTransform(res.out))
                  /\ i' = i + 1
                  /\ UNCHANGED <<pc, crash>>
    /\ UNCHANGED <<pipeline, args_files, filenames, dirs, run, out1, prior, mkdirs,
                   cleaned, text, output>>

(***************************************************************************)
(* json.loads and json.dumps.  A JSON value is [tag, s, keys, items]:      *)
(* a scalar keeps its token in s, an array its values in items, an object  *)
(* its keys (tokens) in keys and their values in items.                    *)
(***************************************************************************)
Space == {" ", "\n"}

Punct == {"{", "}", "[", "]", ":", ","}

First(I) == CHOOSE k \in I : \A j \in I : k <= j

\* the tokens of a JSON text; a string token keeps its quotes, and a string
\* that is never closed lexes to one token that is no scalar
RECURSIVE Lex(_)
Lex(s) ==
    IF s = <<>> THEN <<>>
    ELSE IF s[1] \in Space THEN Lex(Tail(s))
    ELSE IF s[1] \in Punct THEN <<SubSeq(s, 1, 1)>> \o Lex(Tail(s))
    ELSE IF s[1] = "\""
    THEN LET J == {k \in 2..Len(s) : s[k] = "\""}
         IN  IF J = {} THEN <<s>>
             ELSE <<SubSeq(s, 1, First(J))>> \o Lex(From(s, First(J)))
    ELSE LET J == {k \in 1..Len(s) : s[k] \in Space \cup Punct \cup {"\""}}
             n == IF J = {} THEN Len(s) ELSE First(J) - 1
         IN  <<SubSeq(s, 1, n)>> \o Lex(From(s, n))

IsString(tok) == Len(tok) >= 2 /\ tok[1] = "\"" /\ tok[Len(tok)] = "\""

Digits == {"0", "1", "2", "3", "4", "5", "6", "7", "8", "9"}

IsScalar(tok) ==
    \/ IsString(tok)
    \/ tok \in {<<"t", "r", "u", "e">>, <<"f", "a", "l", "s", "e">>, <<"n", "u", "l", "l">>}
    \/ (tok /= <<>> /\ \A k \in 1..Len(tok) : tok[k] \in Digits)

Scalar(tok) == [tag |-> "scalar", s |-> tok, keys |-> <<>>, items |-> <<>>]

Array(items) == [tag |-> "array", s |-> <<>>, keys |-> <<>>, items |-> items]

Object(keys, items) == [tag |-> "object", s |-> <<>>, keys |-> keys, items |-> items]

ParseFail == [ok |-> FALSE, val |-> Scalar(<<>>), rest |-> <<>>]

Parsed(val, rest) == [ok |-> TRUE, val |-> val, rest |-> rest]

RECURSIVE ParseValue(_), ParseItems(_, _), ParseMembers(_, _, _)
ParseValue(t) ==
    IF t = <<>> THEN ParseFail
    ELSE IF t[1] = <<"[">>
    THEN IF Len(t) >= 2 /\ t[2] = <<"]">> THEN Parsed(Array(<<>>), From(t, 2))
         ELSE ParseItems(Tail(t), <<>>)
    ELSE IF t[1] = <<"{">>
    THEN IF Len(t) >= 2 /\ t[2] = <<"}">> THEN Parsed(Object(<<>>, <<>>), From(t, 2))
         ELSE ParseMembers(Tail(t), <<>>, <<>>)
    ELSE IF IsScalar(t[1]) THEN Parsed(Scalar(t[1]), Tail(t))
    ELSE ParseFail

ParseItems(t, acc) ==
    LET r == ParseValue(t)
    IN  IF ~r.ok \/ r.rest = <<>> THEN ParseFail
        ELSE IF r.rest[1] = <<"]">> THEN Parsed(Array(Append(acc, r.val)), Tail(r.rest))
        ELSE IF r.rest[1] = <<",">> THEN ParseItems(Tail(r.rest), Append(acc, r.val))
        ELSE ParseFail

ParseMembers(t, keys, acc) ==
    IF Len(t) < 3 \/ ~IsString(t[1]) \/ t[2] /= <<":">> THEN ParseFail
    ELSE LET r == ParseValue(From(t, 2))
         IN  IF ~r.ok \/ r.rest = <<>> THEN ParseFail
             ELSE IF r.rest[1] = <<"}">>
             THEN Parsed(Object(Append(keys, t[1]), Append(acc, r.val)), Tail(r.rest))
             ELSE IF r.rest[1] = <<",">>
             THEN ParseMembers(Tail(r.rest), Append(keys, t[1]), Append(acc, r.val))
             ELSE ParseFail

\* json.loads(s): ok is FALSE where Python raises
JsonLoads(s) ==
    LET r == ParseValue(Lex(s))
    IN  IF r.ok /\ r.rest = <<>> THEN r ELSE ParseFail

\* whether v["abi"] yields a value: v is an object with that key
HasKey(v, key) == v.tag = "object" /\ \E k \in 1..Len(v.keys) : v.keys[k] = key

\* v[key]: of a repeated key the last value stands
Lookup(v, key) ==
    v.items[CHOOSE k \in 1..Len(v.keys) :
                /\ v.keys[k] = key
                /\ \A j \in 1..Len(v.keys) : v.keys[j] = key => j <= k]

\* json.dumps(v, separators=(',', ':'))
RECURSIVE Dumps(_), DumpItems(_), DumpMembers(_, _)
Dumps(v) ==
    IF v.tag = "scalar" THEN v.s
    ELSE IF v.tag = "array" THEN <<"[">> \o DumpItems(v.items) \o <<"]">>
    ELSE <<"{">> \o DumpMembers(v.keys, v.items) \o <<"}">>

DumpItems(items) ==
    IF items = <<>> THEN <<>>
    ELSE IF Len(items) = 1 THEN Dumps(items[1])
    ELSE Dumps(items[1]) \o <<",">> \o DumpItems(Tail(items))

DumpMembers(keys, items) ==
    IF keys = <<>> THEN <<>>
    ELSE IF Len(keys) = 1 THEN keys[1] \o <<":">> \o Dumps(items[1])
    ELSE keys[1] \o <<":">> \o Dumps(items[1]) \o <<",">> \o DumpMembers(Tail(keys), Tail(items))

(***************************************************************************)
(* process_abis.py                                                         *)
(***************************************************************************)
\* what an artifact file may hold; "missing": there is no such file
ArtifactTexts ==
    [ ok        |-> <<"{", "\"", "a", "b", "i", "\"", ":", " ", "[", "{", "\"", "n", "a", "m", "e", "\"", ":", " ", "\"", "f", "o", "o", "\"", "}", "]", ",", " ", "\"", "b", "y", "t", "e", "c", "o", "d", "e", "\"", ":", " ", "\"", "0", "x", "\"", "}">>,
      nokey     |-> <<"{", "\"", "b", "y", "t", "e", "c", "o", "d", "e", "\"", ":", " ", "\"", "0", "x", "\"", "}">>,
      malformed |-> <<"{", "\"", "a", "b", "i", "\"", ":", " ", "[">> ]

ArtifactStates == {"ok", "nokey", "malformed", "missing"}

\* s[a:b], 0 <= a, 0 <= b
Slice(s, a, b) == SubSeq(s, a + 1, Min(b, Len(s)))

\* the artifact of the contract file at path p: <p>/<base>.json
ArtifactOf(p) == p \o Slice(p, RFind(p, "/"), RFind(p, ".")) \o <<".", "j", "s", "o", "n">>

\* the tree under artifacts/contracts/ the compiler leaves for the picked
\* contracts: a directory per contract file, holding its artifact and its
\* debug file
ArtifactTree(K, st) ==
    LET sols == {ARTIFACTS \o k : k \in {u \in K : Last(u, 4) = <<".", "s", "o", "l">>}}
        plain == {ARTIFACTS \o k : k \in {u \in K : Last(u, 4) /= <<".", "s", "o", "l">>}}
        arts == {ArtifactOf(p) : p \in {q \in sols : st[From(q, 20)] /= "missing"}}
        dbgs == {Upto(ArtifactOf(p), Len(ArtifactOf(p)) - 5) \o <<".", "d", "b", "g", ".", "j", "s", "o", "n">> : p \in sols}
        ds == sols \cup UNION {Ancestors(p) : p \in sols \cup plain}
    IN  [p \in ds \cup plain \cup arts \cup dbgs |->
            IF p \in ds THEN Dir
            ELSE IF p \in arts THEN File(ArtifactTexts[st[Slice(p, 20, RFind(p, "/"))]])
            ELSE File(<<"{", "}">>)]

AbiPriors ==
    { <<>>,
      (NoSlash(ABI) :> Dir) @@ (ABI \o <<"O", "l", "d", ".", "j", "s", "o", "n">> :> File(<<"[", "]">>))
          @@ (ABI \o <<"i", "n", "d", "e", "x", ".", "h", "t", "m", "l">> :> File(<<"o", "l", "d">>)) @@ (ABI \o <<"s", "t", "a", "l", "e">> :> Dir)
          @@ (ABI \o <<"s", "t", "a", "l", "e", "/", "i", "n", "d", "e", "x", ".", "h", "t", "m", "l">> :> File(<<"o", "l", "d">>)) }

InitAbi ==
    /\ pipeline = "abi"
    /\ args_files = NoArgs
    /\ \E K \in Picks, P \in AbiPriors :
         \E st \in [K -> ArtifactStates] : fs = ArtifactTree(K, st) @@ P

\* lines 8-14: clean, get files, get dirs
AbiStart ==
    /\ pipeline = "abi" /\ pc = "start"
    /\ LET names == sorted({f \in GlobRec(fs, ARTIFACTS) : Last(f, 5) /= <<".", "j", "s", "o", "n">>})
           ds == sorted({ABI \o From(Upto(f, RFind(f, "/")), 20) : f \in Range(names)})
       IN  /\ fs' = RmRf(fs, ABI)
           /\ cleaned' = TRUE
           /\ filenames' = names
           /\ dirs' = ds
           /\ i' = 1
           /\ pc' = "mkdirs"
    /\ UNCHANGED <<pipeline, args_files, tool, run, out1, prior, invoked, log, mkdirs,
                   written, created, crash, text, output>>

\* lines 16-19: one mkdir of the loop, the directory given its trailing slash
AbiMakeDir ==
    /\ pipeline = "abi" /\ pc = "mkdirs" /\ i <= Len(dirs)
    /\ LET d == IF Last(dirs[i], 1) /= <<"/">> THEN dirs[i] \o <<"/">> ELSE dirs[i]
       IN  /\ dirs' = [dirs EXCEPT ![i] = d]
           /\ fs' = Mkdir(fs, d)
           /\ mkdirs' = Append(mkdirs, [dir |-> d, ok |-> MkdirOk(fs, d)])
           /\ created' = IF MkdirOk(fs, d) THEN created \cup {NoSlash(d)} ELSE created
    /\ i' = i + 1
    /\ UNCHANGED <<pipeline, args_files, pc, filenames, tool, run, out1, prior, invoked,
                   log, written, cleaned, crash, text, output>>

\* lines 21-24: the .gitignore of abi/, then the .sol entries are kept
AbiGitignore ==
    /\ pipeline = "abi" /\ pc = "mkdirs" /\ i > Len(dirs)
    /\ LET gitignore == ABI \o <<".", "g", "i", "t", "i", "g", "n", "o", "r", "e">>
       IN  IF CanOpenW(fs, gitignore)
           THEN /\ fs' = WriteFile(fs, gitignore, <<"*">>)
                /\ written' = Append(written, gitignore)
                /\ created' = IF gitignore \in DOMAIN fs THEN created
                              ELSE created \cup {gitignore}
                /\ filenames' = SelectSeq(filenames, IsSol)
                /\ i' = 1
                /\ pc' = "files"
                /\ UNCHANGED crash
           ELSE /\ pc' = "crashed"
                /\ crash' = "open"
                /\ UNCHANGED <<fs, written, created, filenames, i>>
    /\ UNCHANGED <<pipeline, args_files, dirs, tool, run, out1, prior, invoked, log,
                   mkdirs, cleaned, text, output>>

\* whether open(p, 'r') succeeds
CanOpenR(f, p) == p \in DOMAIN f /\ f[p].kind = "file"

\* lines 31: whether json.loads(f1.read())["abi"] yields a value
AbiReadable(f, filename2) ==
    /\ CanOpenR(f, filename2)
    /\ JsonLoads(f[filename2].data).ok
    /\ HasKey(JsonLoads(f[filename2].data).val, <<"\"", "a", "b", "i", "\"">>)

\* a variant for comparison: the exception caught and the file skipped
CaughtAndSkipped(k) == [pc |-> "files", i |-> k + 1]

\* an exception nothing catches ends the script at the file it is at
Uncaught(k) == [pc |-> "crashed", i |-> k]

\* lines 25-37: one file of the loop: read the abi from the artifact, write
\* it compact
AbiFile ==
    /\ pipeline = "abi" /\ pc = "files" /\ i <= Len(filenames)
    /\ LET filename == filenames[i]
           si == RFind(filename, "/")
           di == RFind(filename, ".")
           filename2 == filename \o Slice(filename, si, di) \o <<".", "j", "s", "o", "n">>
           filename3 == Replace(ABI \o From(filename, 20), <<".", "s", "o", "l">>, <<".", "j", "s", "o", "n">>)
       IN  IF ~AbiReadable(fs, filename2)
           THEN /\ pc' = Uncaught(i).pc
                /\ i' = Uncaught(i).i
                /\ crash' = "artifact"
                /\ UNCHANGED <<fs, written, created>>
           ELSE IF ~CanOpenW(fs, filename3)
           THEN /\ pc' = "crashed"
                /\ crash' = "open"
                /\ UNCHANGED <<fs, written, created, i>>
           ELSE LET abi == Lookup(JsonLoads(fs[filename2].data).val, <<"\"", "a", "b", "i", "\"">>)
                IN  /\ fs' = WriteFile(fs, filename3, Dumps(abi))
                    /\ written' = Append(written, filename3)
                    /\ created' = IF filename3 \in DOMAIN fs THEN created
                                  ELSE created \cup {filename3}
                    /\ i' = i + 1
                    /\ UNCHANGED <<pc, crash>>
    /\ UNCHANGED <<pipeline, args_files, filenames, dirs, tool, run, out1, prior,
                   invoked, log, mkdirs, cleaned, text, output>>

\* line 45-46: the list items of the directory links
RECURSIVE DirLinks(_)
DirLinks(links) ==
    IF links = <<>> THEN <<>>
    ELSE LET li == From(links[1], RFind(links[1], "/") + 1)
         IN  <<" ", " ", " ", " ", "<", "l", "i", ">", "<", "a", " ", "h", "r", "e", "f", "=", "\"">> \o li \o <<"/", "i", "n", "d", "e", "x", ".", "h", "t", "m", "l", "\"", ">">> \o li \o <<"<", "/", "a", ">", "<", "/", "l", "i", ">", "\n">>
                 \o DirLinks(Tail(links))

\* line 49-50: the list items of the file links
RECURSIVE FileLinks(_)
FileLinks(links) ==
    IF links = <<>> THEN <<>>
    ELSE LET li == From(links[1], RFind(links[1], "/") + 1)
         IN  <<" ", " ", " ", " ", "<", "l", "i", ">", "<", "a", " ", "h", "r", "e", "f", "=", "\"">> \o li \o <<"\"", ">">> \o li \o <<"<", "/", "a", ">", "<", "/", "l", "i", ">", "\n">>
                 \o FileLinks(Tail(links))

\* a variant for comparison: the files listed before the directories
IndexHtmlFilesFirst(f, dir) ==
    LET filenames3 == GlobDir(f, dir)
        dirs2 == sorted({n \in filenames3 : Last(n, 5) /= <<".", "j", "s", "o", "n">>})
        filenames4 == sorted({n \in filenames3 : Last(n, 5) = <<".", "j", "s", "o", "n">>})
    IN  <<"<", "h", "t", "m", "l", ">", "\n", " ", " ", "<", "u", "l", ">", "\n">> \o FileLinks(filenames4) \o DirLinks(dirs2) \o <<" ", " ", "<", "/", "u", "l", ">", "\n", "<", "/", "h", "t", "m", "l", ">">>

\* lines 40-51: the html of a directory's index
IndexHtml(f, dir) ==
    LET filenames3 == GlobDir(f, dir)
        dirs2 == sorted({n \in filenames3 : Last(n, 5) /= <<".", "j", "s", "o", "n">>})
        filenames4 == sorted({n \in filenames3 : Last(n, 5) = <<".", "j", "s", "o", "n">>})
    IN  <<"<", "h", "t", "m", "l", ">", "\n", " ", " ", "<", "u", "l", ">", "\n">> \o DirLinks(dirs2) \o FileLinks(filenames4) \o <<" ", " ", "<", "/", "u", "l", ">", "\n", "<", "/", "h", "t", "m", "l", ">">>

\* lines 39-55: one directory of the loop over dirs, entered once the loop
\* over the files is over
AbiIndex ==
    /\ pipeline = "abi"
    /\ \/ pc = "files" /\ i > Len(filenames)
       \/ pc = "index"
    /\ LET n == IF pc = "files" THEN 1 ELSE i
       IN  IF n > Len(dirs)
           THEN /\ pc' = "done"
                /\ UNCHANGED <<fs, written, created, crash, i>>
           ELSE LET dir == dirs[n]
                    filename4 == dir \o (IF Last(dir, 1) = <<"/">> THEN <<>> ELSE <<"/">>) \o <<"i", "n", "d", "e", "x", ".", "h", "t", "m", "l">>
                IN  IF CanOpenW(fs, filename4)
                    THEN /\ fs' = WriteFile(fs, filename4, IndexHtml(fs, dir))
                         /\ written' = Append(written, filename4)
                         /\ created' = IF filename4 \in DOMAIN fs THEN created
                                       ELSE created \cup {filename4}
                         /\ i' = n + 1
                         /\ pc' = "index"
                         /\ UNCHANGED crash
                    ELSE /\ pc' = "crashed"
                         /\ crash' = "open"
                         /\ UNCHANGED <<fs, written, created, i>>
    /\ UNCHANGED <<pipeline, args_files, filenames, dirs, tool, run, out1, prior,
                   invoked, log, mkdirs, cleaned, text, output>>

(***************************************************************************)
(* The transforms alone, on flattened texts made of fragments.             *)
(***************************************************************************)
Frags ==
    { <<"/", "/", " ", "S", "P", "D", "X", "-", "x">>, <<"/", "/", " ", "s", "p", "d", "x", " ">>, <<"/">>, <<"/", " ", "S", "P", "D", "X">>, <<"\n">>,
      <<"p", "r", "a", "g", "m", "a", " ", "s", "o", "l", "i", "d", "i", "t", "y", " ", "^", "0", ".", "8", ".", "0", ";">>, <<"p", "r", "a", "g", "m", "a", " ", "s", "o", "l", "i", "d", "i", "t", "y", " ", "^", "0", ".", "8", ".", "1", "0", ";">>, <<"p", "r", "a", "g", "m", "a", " ", "s", "o", "l", "i", "d", "i", "t", "y", " ">>,
      <<"^", "0", ".", "8", ".", "0">>, <<"p", "r", "a", "g", "m", "a", " ", "s", "o", "l", "i", "d", "i", "t", "y", " ", "0", ".", "8", ".", "0", ";">> }

RECURSIVE Concat(_)
Concat(parts) == IF parts = <<>> THEN <<>> ELSE parts[1] \o Concat(Tail(parts))

Texts == {Concat(parts) : parts \in UNION {[1..n -> Frags] : n \in 0..MaxFrags}}

\* flatten_contracts.py line 31 on the captured text
TextFlatten ==
    /\ pipeline = "text" /\ pc = "captured"
    /\ output' = FlattenTransform(text)
    /\ pc' = "flattened"
    /\ UNCHANGED <<pipeline, args_files, fs, filenames, dirs, i, tool, run, out1, prior,
                   invoked, log, mkdirs, written, created, cleaned, crash, text>>

\* process_contracts.py lines 53-55 on the captured text
TextProcess ==
    /\ pipeline = "text" /\ pc = "captured"
    /\ output' = ProcessTransform(text)
    /\ pc' = "processed"
    /\ UNCHANGED <<pipeline, args_files, fs, filenames, dirs, i, tool, run, out1, prior,
                   invoked, log, mkdirs, written, created, cleaned, crash, text>>

(***************************************************************************)
(* The specifications.                                                     *)
(***************************************************************************)
Fresh ==
    /\ filenames = <<>> /\ dirs = <<>> /\ i = 1
    /\ tool = <<>>
    /\ run = 1 /\ out1 = <<>>
    /\ prior = fs
    /\ invoked = <<>> /\ log = <<>> /\ mkdirs = <<>> /\ written = <<>>
    /\ created = {} /\ cleaned = FALSE /\ crash = ""
    /\ output = <<>>

Init ==
    /\ (InitFlatten \/ InitProcess \/ InitAbi)
    /\ pc = "start"
    /\ text = <<>>
    /\ Fresh

Next ==
    \/ FlattenStart
    \/ FlattenMakeDir
    \/ FlattenFile
    \/ Finish
    \/ FlattenAgain
    \/ ProcessStart
    \/ ProcessMakeDir
    \/ ProcessFile
    \/ AbiStart
    \/ AbiMakeDir
    \/ AbiGitignore
    \/ AbiFile
    \/ AbiIndex

Spec == Init /\ [][Next]_vars

InitText ==
    /\ pipeline = "text"
    /\ args_files = NoArgs
    /\ fs = <<>>
    /\ pc = "captured"
    /\ text \in Texts
    /\ Fresh

NextText == TextFlatten \/ TextProcess

SpecText == InitText /\ [][NextText]_vars

(***************************************************************************)
(* What the claims speak of.                                               *)
(***************************************************************************)
\* the output root of the running script, and its input root
Root ==
    IF pipeline = "flatten" THEN CONTRACTS_FLAT
    ELSE IF pipeline = "process" THEN CONTRACTS_PROCESSED
    ELSE ABI

InputRoot == IF pipeline = "abi" THEN ARTIFACTS ELSE CONTRACTS

\* the runs that rebuild their output root
Rebuilds == pipeline \in {"flatten", "abi"} \/ (pipeline = "process" /\ ~args_files.given)

Filtered == pipeline = "process" /\ args_files.given

IsPrefix(a, b) == Len(a) <= Len(b) /\ SubSeq(b, 1, Len(a)) = a

\* the strings of S in ascending order
Ascending(S) ==
    CHOOSE q \in [1..Cardinality(S) -> S] :
        \A a, b \in 1..Cardinality(S) : a < b => StrLess(q[a], q[b])

\* the name of an entry: what follows its last slash
Name(p) == From(p, RFind(p, "/") + 1)

\* the .sol entries below the input root when the run started
SolEntries == {p \in DOMAIN prior : StartsWith(p, InputRoot) /\ Last(p, 4) = <<".", "s", "o", "l">>}

\* the contract files a run of flatten or process is to handle, in order
Selected ==
    IF Filtered
    THEN [k \in 1..Len(Split(args_files.value, ",")) |->
             <<"c", "o", "n", "t", "r", "a", "c", "t", "s", "/">> \o Split(args_files.value, ",")[k]]
    ELSE Ascending(SolEntries)

\* where the contract file at contracts/<rel> is written
OutPath(f) == Root \o SubSeq(f, Len(CONTRACTS) + 1, Len(f))

\* the generated format: license header, blank line, body
HasFormat(data) == StartsWith(data, license \o <<"\n", "\n">>)

\* the lines the runs of the invoked files are to print
RECURSIVE ExpectedLog(_)
ExpectedLog(files) ==
    IF files = <<>> THEN <<>>
    ELSE <<Line(IF pipeline = "flatten" THEN "cmd" ELSE "processing", files[1])>>
             \o (IF tool[files[1]].rc /= 0 THEN <<Line("ERROR", <<>>)>> ELSE <<>>)
             \o ExpectedLog(Tail(files))

(***************************************************************************)
(* C1: in the flatten and process pipelines every selected contract file   *)
(* is handed to the tool once, in sorted (listed) order; a non-zero exit   *)
(* status prints ERROR for that file and nothing more: the run never stops *)
(* on it, the files after it are invoked, and each file that succeeds is   *)
(* written.                                                                *)
(***************************************************************************)
C1_FailureIsLocal ==
    pipeline \in {"flatten", "process"} =>
        /\ IsPrefix(invoked, Selected)
        /\ pc = "done" => invoked = Selected
        /\ pc \in {"files", "done"} => i = Len(invoked) + 1
        /\ pc = "crashed" =>
              /\ crash = "open"
              /\ Len(invoked) < Len(Selected)
              /\ ~CanOpenW(fs, OutPath(Selected[Len(invoked) + 1]))
        /\ IF pc = "crashed"
           THEN log = Append(ExpectedLog(invoked),
                             Line("processing", Selected[Len(invoked) + 1]))
           ELSE log = ExpectedLog(invoked)
        /\ \A k \in 1..Len(invoked) :
              tool[invoked[k]].rc = 0 =>
                  /\ OutPath(invoked[k]) \in Range(written)
                  /\ OutPath(invoked[k]) \in DOMAIN fs
                  /\ HasFormat(fs[OutPath(invoked[k])].data)

\* a run that ended after a failing file was followed by a succeeding one
C1_Witness ==
    /\ pipeline \in {"flatten", "process"} /\ pc = "done"
    /\ \E k \in 1..(Len(invoked) - 1) :
          /\ tool[invoked[k]].rc /= 0
          /\ tool[invoked[k + 1]].rc = 0
          /\ invoked[k] /= invoked[k + 1]
          /\ OutPath(invoked[k + 1]) \in DOMAIN fs

(***************************************************************************)
(* C2: the output root is rebuilt: in the flatten pipeline, the abi-index  *)
(* pipeline and the process pipeline without --files, once the run has     *)
(* started every entry of the output root was created by this run, and     *)
(* nothing is left of what the root held before; the process pipeline      *)
(* cleans its output root exactly when --files is absent.                  *)
(***************************************************************************)
C2_RootRebuilt ==
    pc /= "start" =>
        /\ cleaned <=> Rebuilds
        /\ Rebuilds =>
              \A p \in DOMAIN fs : Under(p, Root) => p \in created

\* a rebuilding run that ended, over a root that held stale entries
C2_Witness ==
    /\ Rebuilds /\ pc = "done"
    /\ \E p \in DOMAIN prior : Under(p, Root) /\ p \notin DOMAIN fs
    /\ \E p \in DOMAIN prior : Under(p, Root) /\ p \in DOMAIN fs /\ fs[p] /= prior[p]

(***************************************************************************)
(* C3: with --files f1,...,fn the process pipeline hands only              *)
(* contracts/f1 ... contracts/fn to the tool and writes only               *)
(* contracts_processed/f1 ... fn; it does not clean, creates no directory, *)
(* and leaves every other entry of the file system as it was, whatever the *)
(* exit statuses.                                                          *)
(***************************************************************************)
C3_FilteredFrame ==
    Filtered =>
        LET listed == Range(Split(args_files.value, ","))
            ins == {<<"c", "o", "n", "t", "r", "a", "c", "t", "s", "/">> \o f : f \in listed}
            outs == {<<"c", "o", "n", "t", "r", "a", "c", "t", "s", "_", "p", "r", "o", "c", "e", "s", "s", "e", "d", "/">> \o f : f \in listed}
        IN  /\ Range(invoked) \subseteq ins
            /\ Range(written) \subseteq outs
            /\ ~cleaned
            /\ mkdirs = <<>>
            /\ \A p \in (DOMAIN fs \cup DOMAIN prior) \ outs :
                  p \in DOMAIN fs /\ p \in DOMAIN prior /\ fs[p] = prior[p]
            /\ \A p \in DOMAIN fs : fs[p].kind = "dir" => p \in DOMAIN prior /\ prior[p].kind = "dir"

\* a filtered run that ended having written a listed file beside others it left alone
C3_Witness ==
    /\ Filtered /\ pc = "done"
    /\ written /= <<>>
    /\ \E p \in DOMAIN prior : Under(p, Root) /\ prior[p].kind = "file" /\ p \notin Range(written)
    /\ \E p \in SolEntries : p \notin Range(invoked)
    /\ \E f \in Range(invoked) : tool[f].rc /= 0

(***************************************************************************)
(* C4: in the abi-index pipeline a contract whose artifact JSON is         *)
(* missing, malformed or without the "abi" key stops the run: no ABI file  *)
(* is ever created for it or for a contract after it in sorted order, no   *)
(* index.html is written at all, and the ABI files of the contracts before *)
(* it stay as written.                                                     *)
(***************************************************************************)
\* the artifact of a contract entry, and the ABI file written for it
ArtifactPath(p) == p \o <<"/">> \o Upto(Name(p), Len(Name(p)) - 4) \o <<".", "j", "s", "o", "n">>

AbiPath(p) == <<"a", "b", "i", "/">> \o Upto(SubSeq(p, 21, Len(p)), Len(p) - 24) \o <<".", "j", "s", "o", "n">>

BadArtifact(p) ==
    \/ ArtifactPath(p) \notin DOMAIN prior
    \/ prior[ArtifactPath(p)].data /= ArtifactTexts.ok

C4_BadArtifactStops ==
    (pipeline = "abi" /\ pc /= "start") =>
        /\ \A p \in SolEntries :
              BadArtifact(p) =>
                  /\ AbiPath(p) \notin DOMAIN fs
                  /\ \A q \in SolEntries : StrLess(p, q) => AbiPath(q) \notin DOMAIN fs
                  /\ \A x \in DOMAIN fs : Under(x, ABI) => Name(x) /= <<"i", "n", "d", "e", "x", ".", "h", "t", "m", "l">>
                  /\ pc \notin {"index", "done"}
        /\ (pc = "crashed" /\ crash = "artifact") =>
              /\ BadArtifact(filenames[i])
              /\ \A q \in SolEntries :
                    StrLess(q, filenames[i]) =>
                        /\ ~BadArtifact(q)
                        /\ AbiPath(q) \in DOMAIN fs
                        /\ fs[AbiPath(q)] = File(<<"[", "{", "\"", "n", "a", "m", "e", "\"", ":", "\"", "f", "o", "o", "\"", "}", "]">>)

\* the run stopped at a contract without the key, between a written one and a later one
C4_Witness ==
    /\ pipeline = "abi" /\ pc = "crashed" /\ crash = "artifact"
    /\ ArtifactPath(filenames[i]) \in DOMAIN fs
    /\ fs[ArtifactPath(filenames[i])].data = ArtifactTexts.nokey
    /\ \E q \in SolEntries : StrLess(q, filenames[i]) /\ AbiPath(q) \in DOMAIN fs
    /\ \E q \in SolEntries : StrLess(filenames[i], q) /\ ~BadArtifact(q)

(***************************************************************************)
(* C5: whatever license-identifier lines the flattened text holds, the     *)
(* text written by the flatten and process transforms starts with the one  *)
(* canonical header as its first line, then a blank line, and nothing      *)
(* after that header matches the license pattern.                          *)
(***************************************************************************)
\* where '// SPDX', in any case, starts in s
LicenseStarts(s) ==
    {k \in 1..(Len(s) - 6) : \A j \in 1..7 : Fold(s[k + j - 1]) = Fold(<<"/", "/", " ", "S", "P", "D", "X">>[j])}

\* where p occurs in s
Occ(s, p) == {k \in 1..(Len(s) - Len(p) + 1) : SubSeq(s, k, k + Len(p) - 1) = p}

C5_OneHeader ==
    (pipeline = "text" /\ pc \in {"flattened", "processed"}) =>
        /\ SubSeq(output, 1, 44) = <<"/", "/", " ", "S", "P", "D", "X", "-", "L", "i", "c", "e", "n", "s", "e", "-", "I", "d", "e", "n", "t", "i", "f", "i", "e", "r", ":", " ", "G", "P", "L", "-", "3", ".", "0", "-", "o", "r", "-", "l", "a", "t", "e", "r">>
        /\ Len(output) >= 46
        /\ output[45] = "\n"
        /\ output[46] = "\n"
        /\ LicenseStarts(output) = {1}
        /\ Occ(output, <<"/", "/", " ", "S", "P", "D", "X", "-", "L", "i", "c", "e", "n", "s", "e", "-", "I", "d", "e", "n", "t", "i", "f", "i", "e", "r", ":", " ", "G", "P", "L", "-", "3", ".", "0", "-", "o", "r", "-", "l", "a", "t", "e", "r">>) = {1}

\* a text with license lines in both cases went through the process transform
C5_Witness ==
    /\ pipeline = "text" /\ pc = "processed"
    /\ Occ(text, <<"/", "/", " ", "S", "P", "D", "X", "-", "x">>) /= {}
    /\ Occ(text, <<"/", "/", " ", "s", "p", "d", "x", " ">>) /= {}
    /\ Cardinality(LicenseStarts(text)) >= 2

(***************************************************************************)
(* C6: the process transform replaces every 'pragma solidity ^0.8.0' by    *)
(* 'pragma solidity 0.8.0', so that none remains, and leaves every other   *)
(* character, and so every pragma of another version, as it was; the       *)
(* flatten transform changes no pragma.                                    *)
(***************************************************************************)
\* the characters of s outside the license comments: those not between a
\* '// SPDX' and the end of its line
Live(s) ==
    LET M == LicenseStarts(s)
        N == {k \in 1..Len(s) : s[k] = "\n"}
        keep == SelectSeq([k \in 1..Len(s) |-> k],
                          LAMBDA k : ~\E j \in M : j <= k /\ \A n \in N : ~(j < n /\ n <= k))
    IN  [n \in 1..Len(keep) |-> s[keep[n]]]

\* s without the characters at the positions D
Without(s, D) ==
    LET keep == SelectSeq([k \in 1..Len(s) |-> k], LAMBDA k : k \notin D)
    IN  [n \in 1..Len(keep) |-> s[keep[n]]]

\* the text after the header and the blank line
Body(out) == SubSeq(out, 47, Len(out))

OtherPragmas == {<<"p", "r", "a", "g", "m", "a", " ", "s", "o", "l", "i", "d", "i", "t", "y", " ", "^", "0", ".", "8", ".", "1", "0">>, <<"p", "r", "a", "g", "m", "a", " ", "s", "o", "l", "i", "d", "i", "t", "y", " ", "^", "0", ".", "7", ".", "0">>, <<"p", "r", "a", "g", "m", "a", " ", "s", "o", "l", "i", "d", "i", "t", "y", " ", "0", ".", "8", ".", "0">>}

C6_PragmaPinned ==
    pipeline = "text" =>
        /\ pc = "processed" =>
              /\ Occ(output, <<"p", "r", "a", "g", "m", "a", " ", "s", "o", "l", "i", "d", "i", "t", "y", " ", "^", "0", ".", "8", ".", "0">>) = {}
              /\ Body(output) = Without(Live(text),
                                        {k + 16 : k \in Occ(Live(text), <<"p", "r", "a", "g", "m", "a", " ", "s", "o", "l", "i", "d", "i", "t", "y", " ", "^", "0", ".", "8", ".", "0">>)})
              /\ Cardinality(Occ(output, <<"p", "r", "a", "g", "m", "a", " ", "s", "o", "l", "i", "d", "i", "t", "y", " ", "^", "0", ".", "8", ".", "1", "0">>))
                    = Cardinality(Occ(Live(text), <<"p", "r", "a", "g", "m", "a", " ", "s", "o", "l", "i", "d", "i", "t", "y", " ", "^", "0", ".", "8", ".", "1", "0">>))
        /\ pc = "flattened" =>
              \A p \in OtherPragmas \cup {<<"p", "r", "a", "g", "m", "a", " ", "s", "o", "l", "i", "d", "i", "t", "y", " ", "^", "0", ".", "8", ".", "0">>} :
                  Occ(Body(output), p) = Occ(Live(text), p)

\* a text with two floating 0.8.0 pragmas and one of another version was processed
C6_Witness ==
    /\ pipeline = "text" /\ pc = "processed"
    /\ Cardinality(Occ(Live(text), <<"p", "r", "a", "g", "m", "a", " ", "s", "o", "l", "i", "d", "i", "t", "y", " ", "^", "0", ".", "8", ".", "0">>)) >= 2
    /\ Occ(Live(text), <<"p", "r", "a", "g", "m", "a", " ", "s", "o", "l", "i", "d", "i", "t", "y", " ", "^", "0", ".", "8", ".", "1", "0">>) /= {}
    /\ Occ(output, <<"p", "r", "a", "g", "m", "a", " ", "s", "o", "l", "i", "d", "i", "t", "y", " ", "^", "0", ".", "8", ".", "1", "0">>) /= {}

(***************************************************************************)
(* C7: after an abi-index run that ended, every directory under abi/ holds *)
(* an index.html that lists the directory's subdirectories, each linking   *)
(* to <name>/index.html, and then the ABI .json files written into it,     *)
(* each linking to <name>; each of the two lists ascends; index.html and   *)
(* .gitignore are not listed.                                              *)
(***************************************************************************)
Anchor(href, label) == <<" ", " ", " ", " ", "<", "l", "i", ">", "<", "a", " ", "h", "r", "e", "f", "=", "\"">> \o href \o <<"\"", ">">> \o label \o <<"<", "/", "a", ">", "<", "/", "l", "i", ">", "\n">>

RECURSIVE Anchors(_, _)
Anchors(names, suffix) ==
    IF names = <<>> THEN <<>>
    ELSE Anchor(names[1] \o suffix, names[1]) \o Anchors(Tail(names), suffix)

SubdirNames(d) == {Name(p) : p \in {q \in DOMAIN fs : Parent(q) = d /\ fs[q].kind = "dir"}}

AbiNames(d) ==
    {Name(p) : p \in {q \in Range(written) : Parent(q) = d /\ Last(q, 5) = <<".", "j", "s", "o", "n">>}}

ExpectedIndex(d) ==
    <<"<", "h", "t", "m", "l", ">", "\n", " ", " ", "<", "u", "l", ">", "\n">>
        \o Anchors(Ascending(SubdirNames(d)), <<"/", "i", "n", "d", "e", "x", ".", "h", "t", "m", "l">>)
        \o Anchors(Ascending(AbiNames(d)), <<>>)
        \o <<" ", " ", "<", "/", "u", "l", ">", "\n", "<", "/", "h", "t", "m", "l", ">">>

C7_IndexListsChildren ==
    (pipeline = "abi" /\ pc = "done") =>
        /\ \A k \in 1..Len(dirs) : IsDir(fs, NoSlash(dirs[k]))
        /\ \A d \in {p \in DOMAIN fs : Under(p, ABI) /\ fs[p].kind = "dir"} :
              /\ d \o <<"/", "i", "n", "d", "e", "x", ".", "h", "t", "m", "l">> \in DOMAIN fs
              /\ fs[d \o <<"/", "i", "n", "d", "e", "x", ".", "h", "t", "m", "l">>] = File(ExpectedIndex(d))

\* the index of abi/ lists two subdirectories and an ABI file
C7_Witness ==
    /\ pipeline = "abi" /\ pc = "done"
    /\ Cardinality(SubdirNames(<<"a", "b", "i">>)) >= 2
    /\ AbiNames(<<"a", "b", "i">>) /= {}
    /\ \E d \in SubdirNames(<<"a", "b", "i">>) : SubdirNames(<<"a", "b", "i", "/">> \o d) /= {}

(***************************************************************************)
(* C8: with the tool answering the same for the same file, a second run of *)
(* the flatten pipeline on the unchanged contracts/ leaves the output tree *)
(* the first run left, whatever the output root held before either run.    *)
(***************************************************************************)
C8_FlattenTwice ==
    (pipeline = "flatten" /\ run = 2 /\ pc = "done") =>
        OutTree(fs, CONTRACTS_FLAT) = out1

\* the second run ended over a root that was changed between the runs
C8_Witness ==
    /\ pipeline = "flatten" /\ run = 2 /\ pc = "done"
    /\ OutTree(prior, CONTRACTS_FLAT) /= out1
    /\ \E p \in DOMAIN out1 : out1[p].kind = "file"
    /\ \E f \in Range(invoked) : tool[f].rc /= 0

(***************************************************************************)
(* C9: every contract file a run of the flatten or process pipeline wrote  *)
(* has the generated format, license header, blank line, body; a file      *)
(* whose invocation returned non-zero has no output written for it, and an *)
(* output it had before the run is as it was.                              *)
(***************************************************************************)
C9_OutputsWellFormed ==
    pipeline \in {"flatten", "process"} =>
        /\ \A p \in Range(written) : HasFormat(fs[p].data)
        /\ \A k \in 1..Len(invoked) :
              tool[invoked[k]].rc /= 0 =>
                  LET o == OutPath(invoked[k])
                      before == IF cleaned THEN <<>> ELSE prior
                  IN  IF o \in DOMAIN before THEN o \in DOMAIN fs /\ fs[o] = before[o]
                      ELSE o \notin DOMAIN fs

\* a process run whose tool failed on a file left what the tool printed as the output
C9_Witness ==
    /\ pipeline = "process" /\ pc = "done"
    /\ \E k \in 1..Len(invoked) :
          /\ tool[invoked[k]].rc /= 0
          /\ OutPath(invoked[k]) \in DOMAIN fs
          /\ fs[OutPath(invoked[k])].data = tool[invoked[k]].out
          /\ ~HasFormat(fs[OutPath(invoked[k])].data)

(***************************************************************************)
(* C10: in the runs that rebuild their output root, over an input tree     *)
(* that is not empty, every mkdir finds the parent of its directory        *)
(* present, made by an earlier mkdir of the run (the root's parent is the  *)
(* working directory); the directories made are those that mirror the      *)
(* input; no file is written before the last mkdir, and every file is      *)
(* written into a directory the run made.                                  *)
(***************************************************************************)
\* the directories of the output root that mirror the input tree: one for
\* the parent of every entry the script looks at
Mirrored ==
    LET seen == {p \in DOMAIN prior :
                    /\ StartsWith(p, InputRoot)
                    /\ (pipeline = "abi" => Last(p, 5) /= <<".", "j", "s", "o", "n">>)}
    IN  {NoSlash(Root \o SubSeq(Parent(p), Len(InputRoot) + 1, Len(Parent(p)))) : p \in seen}

C10_DirsBeforeFiles ==
    (Rebuilds /\ \E p \in DOMAIN prior : StartsWith(p, InputRoot)) =>
        /\ \A k \in 1..Len(mkdirs) :
              /\ mkdirs[k].ok
              /\ \/ Parent(NoSlash(mkdirs[k].dir)) = <<>>
                 \/ \E j \in 1..(k - 1) : NoSlash(mkdirs[j].dir) = Parent(NoSlash(mkdirs[k].dir))
        /\ {NoSlash(mkdirs[k].dir) : k \in 1..Len(mkdirs)} \subseteq Mirrored
        /\ written /= <<>> => {NoSlash(mkdirs[k].dir) : k \in 1..Len(mkdirs)} = Mirrored
        /\ \A w \in Range(written) :
              \E k \in 1..Len(mkdirs) : NoSlash(mkdirs[k].dir) = Parent(w)
        /\ crash /= "open"

\* a run that ended having written a file two directories below the root
C10_Witness ==
    /\ Rebuilds /\ pc = "done"
    /\ Len(mkdirs) >= 3
    /\ \E w \in Range(written) : Parent(Parent(w)) \in {NoSlash(mkdirs[k].dir) : k \in 1..Len(mkdirs)}
                                /\ Parent(Parent(Parent(w))) /= <<>>

====
